---- MODULE Spec2Model ----
(***************************************************************************)
(* Model of the zardy ASCII sprite library: Alignment (align.py), Sprite   *)
(* geometry, merge and wrap (sprites.py), and Border (borders/border.py    *)
(* over the Align / Sprite / merge of lib/ascii.py).                       *)
(*                                                                         *)
(* A Python str is a sequence of one-character strings; an operation that  *)
(* can raise returns Ok(value) or Raise(exception name).                   *)
(***************************************************************************)
EXTENDS Integers, Sequences, FiniteSets, TLC

VARIABLES pc, op, args, ret

vars == <<pc, op, args, ret>>

(* ------------------------------ bounds --------------------------------- *)
MaxText == 3
MaxMergeText == 2
MaxMin == 3
MaxMargin == 2
MaxDim == 5

(* ------------------------- ascii/ascii.py ------------------------------ *)
BLANK == <<>>
SPACE == <<" ">>
NEWLINE == "\n"

AsciiError == "AsciiError"
ValueError == "ValueError"

(* ------------------------- Python built-ins ---------------------------- *)
Ok(v) == [exc |-> "", val |-> v]
Raise(e) == [exc |-> e]
IsOk(r) == r.exc = ""

Max(a, b) == IF a >= b THEN a ELSE b

\* `x = v` followed by F(x): v is evaluated once, as an assignment does
Let(v, F(_)) == CHOOSE y \in {F(x) : x \in {v}} : TRUE

\* the rest of a body runs on the value of a call unless the call raised
Try(r, F(_)) == IF ~IsOk(r) THEN r ELSE F(r.val)

RECURSIVE Repeat(_, _)
\* str * n, and list * n
Repeat(s, n) == IF n <= 0 THEN <<>> ELSE s \o Repeat(s, n - 1)

RECURSIVE SplitAcc(_, _, _)
SplitAcc(str, cur, acc) ==
    IF str = <<>>
    THEN IF cur = <<>> THEN acc ELSE Append(acc, cur)
    ELSE IF Head(str) = NEWLINE
         THEN SplitAcc(Tail(str), <<>>, Append(acc, cur))
         ELSE SplitAcc(Tail(str), Append(cur, Head(str)), acc)

\* str.splitlines(): a trailing line break opens no further line
splitlines(str) == SplitAcc(str, <<>>, <<>>)

RECURSIVE join(_)
\* NEWLINE.join(lines)
join(lines) ==
    IF lines = <<>> THEN <<>>
    ELSE IF Len(lines) = 1 THEN lines[1]
    ELSE lines[1] \o <<NEWLINE>> \o join(Tail(lines))

RECURSIVE MaxLen(_)
\* max(len(line) for line in lines), lines not empty
MaxLen(lines) ==
    IF Len(lines) = 1 THEN Len(lines[1])
    ELSE Max(Len(lines[1]), MaxLen(Tail(lines)))

\* int(a / b) for a >= 0, b > 0
IntDiv(a, b) == a \div b

(* --------------------------- ascii/align.py ---------------------------- *)
Alignment == {"TOPLEFT", "LEFT", "BOTTOMLEFT", "TOPRIGHT", "RIGHT",
              "BOTTOMRIGHT", "TOP", "CENTER", "BOTTOM"}

left(a) == a \in {"TOPLEFT", "LEFT", "BOTTOMLEFT"}
\* slip: only CENTER counts as horizontally centered
center_only(a) == a = "CENTER"

center(a) == a \in {"TOP", "CENTER", "BOTTOM"}
right(a) == a \in {"TOPRIGHT", "RIGHT", "BOTTOMRIGHT"}
top(a) == a \in {"TOPLEFT", "TOP", "TOPRIGHT"}
middle(a) == a \in {"LEFT", "CENTER", "RIGHT"}
bottom(a) == a \in {"BOTTOMLEFT", "BOTTOM", "BOTTOMRIGHT"}

(* -------------------------- ascii/sprites.py --------------------------- *)
\* the dataclass, with its field defaults
Sprite(text, padding, align, min_width, min_height) ==
    [ascii |-> text, padding |-> padding, align |-> align,
     min_width |-> min_width, min_height |-> min_height]

NullSprite == Sprite(BLANK, BLANK, "LEFT", 0, 0)

\* slip: front and back exchanged
margins_swapped(dim, min_dim, alignment, vertical) ==
    IF dim >= min_dim THEN <<0, 0>>
    ELSE LET front == IF vertical THEN top(alignment) ELSE left(alignment)
             back == IF vertical THEN bottom(alignment) ELSE right(alignment)
         IN IF back THEN <<0, min_dim - dim>>
            ELSE IF front THEN <<min_dim - dim, 0>>
            ELSE <<IntDiv(min_dim - dim, 2) + ((min_dim - dim) % 2),
                   IntDiv(min_dim - dim, 2)>>

margins(dim, min_dim, alignment, vertical) ==
    IF dim >= min_dim THEN <<0, 0>>
    ELSE LET front == IF vertical THEN top(alignment) ELSE left(alignment)
             back == IF vertical THEN bottom(alignment) ELSE right(alignment)
         IN IF front THEN <<0, min_dim - dim>>
            ELSE IF back THEN <<min_dim - dim, 0>>
            ELSE <<IntDiv(min_dim - dim, 2),
                   IntDiv(min_dim - dim, 2) + ((min_dim - dim) % 2)>>

\* max() of no line raises ValueError
dim(s) ==
    LET lines == splitlines(s.ascii)
    IN IF lines = <<>> THEN Raise(ValueError)
       ELSE Ok(<<Max(MaxLen(lines), s.min_width), Max(Len(lines), s.min_height)>>)

textbox(s) ==
    LET d == dim(s)
    IN IF ~IsOk(d) THEN d
       ELSE
       LET box_width == Max(d.val[1], s.min_width)
           box_height == Max(d.val[2], s.min_height)
           lines == splitlines(s.ascii)
           padded_lines ==
               [i \in 1..Len(lines) |->
                   LET m == margins(Len(lines[i]), box_width, s.align, FALSE)
                   IN Repeat(s.padding, m[1]) \o lines[i] \o Repeat(s.padding, m[2])]
           pad == Repeat(s.padding, box_width)
           height == Len(padded_lines)
           vm == margins(height, box_height, s.align, TRUE)
       IN IF height >= box_height THEN Ok(join(padded_lines))
          ELSE Ok(join(Repeat(<<pad>>, vm[1]) \o padded_lines \o Repeat(<<pad>>, vm[2])))

rows(s) ==
    LET t == textbox(s)
    IN IF ~IsOk(t) THEN t ELSE Ok(splitlines(t.val))

blank_row(s) ==
    LET d == dim(s)
    IN IF ~IsOk(d) THEN d ELSE Ok(Repeat(s.padding, d.val[1]))

options(s) ==
    [padding |-> s.padding, align |-> s.align,
     min_width |-> s.min_width, min_height |-> s.min_height]

\* index counts from 0; only IndexError is caught
row(s, index) ==
    LET r == rows(s)
    IN IF ~IsOk(r) THEN r
       ELSE IF index < Len(r.val) THEN Ok(r.val[index + 1])
       ELSE blank_row(s)

\* the first exception among results, or "" when none raised
FirstExc(results) ==
    IF \A i \in 1..Len(results) : IsOk(results[i]) THEN ""
    ELSE LET i == CHOOSE k \in 1..Len(results) :
                     /\ ~IsOk(results[k])
                     /\ \A j \in 1..(k - 1) : IsOk(results[j])
         IN results[i].exc

\* slip: the RIGHT loop runs over the rows of `this` only, as merge of lib/ascii.py does
MergePair_this_rows(edge, align, this, next) ==
    LET this_kwargs == options(this)
        next_kwargs == options(next)
        d1 == dim(this)
        d2 == dim(next)
    IN IF ~IsOk(d1) THEN d1
       ELSE IF ~IsOk(d2) THEN d2
       ELSE
       LET min_width == Max(d1.val[1], d2.val[1])
           min_height == Max(d1.val[2], d2.val[2])
       IN IF edge = "RIGHT"
          THEN LET current == Sprite(textbox(this).val, this_kwargs.padding,
                                     this_kwargs.align, this_kwargs.min_width, min_height)
                   adjacent == Sprite(textbox(next).val, next_kwargs.padding,
                                      next_kwargs.align, next_kwargs.min_width, min_height)
                   pairs == [i \in 1..(2 * d1.val[2]) |->
                                IF i % 2 = 1 THEN row(current, (i - 1) \div 2)
                                ELSE row(adjacent, (i - 2) \div 2)]
                   e == FirstExc(pairs)
               IN IF e # "" THEN Raise(e)
                  ELSE Ok(Sprite(join([i \in 1..d1.val[2] |->
                                          pairs[2 * i - 1].val \o pairs[2 * i].val]),
                                 SPACE, align, 0, 0))
          ELSE IF edge = "BOTTOM"
          THEN LET current == Sprite(textbox(this).val, this_kwargs.padding,
                                     this_kwargs.align, min_width, this_kwargs.min_height)
                   adjacent == Sprite(textbox(next).val, next_kwargs.padding,
                                      next_kwargs.align, min_width, next_kwargs.min_height)
                   r1 == rows(current)
                   r2 == rows(adjacent)
               IN IF ~IsOk(r1) THEN r1
                  ELSE IF ~IsOk(r2) THEN r2
                  ELSE Ok(Sprite(join(r1.val \o r2.val), SPACE, align, 0, 0))
          ELSE Ok(Sprite(join(<<>>), SPACE, align, 0, 0))

\* one step of the fold: sprites[0] joined with the merged tail
MergePair(edge, align, this, next) ==
    LET this_kwargs == options(this)
        next_kwargs == options(next)
        d1 == dim(this)
        d2 == dim(next)
    IN IF ~IsOk(d1) THEN d1
       ELSE IF ~IsOk(d2) THEN d2
       ELSE
       LET min_width == Max(d1.val[1], d2.val[1])
           min_height == Max(d1.val[2], d2.val[2])
       IN IF edge = "RIGHT"
          THEN LET current == Sprite(textbox(this).val, this_kwargs.padding,
                                     this_kwargs.align, this_kwargs.min_width, min_height)
                   adjacent == Sprite(textbox(next).val, next_kwargs.padding,
                                      next_kwargs.align, next_kwargs.min_width, min_height)
                   pairs == [i \in 1..(2 * min_height) |->
                                IF i % 2 = 1 THEN row(current, (i - 1) \div 2)
                                ELSE row(adjacent, (i - 2) \div 2)]
                   e == FirstExc(pairs)
               IN IF e # "" THEN Raise(e)
                  ELSE Ok(Sprite(join([i \in 1..min_height |->
                                          pairs[2 * i - 1].val \o pairs[2 * i].val]),
                                 SPACE, align, 0, 0))
          ELSE IF edge = "BOTTOM"
          THEN LET current == Sprite(textbox(this).val, this_kwargs.padding,
                                     this_kwargs.align, min_width, this_kwargs.min_height)
                   adjacent == Sprite(textbox(next).val, next_kwargs.padding,
                                      next_kwargs.align, min_width, next_kwargs.min_height)
                   r1 == rows(current)
                   r2 == rows(adjacent)
               IN IF ~IsOk(r1) THEN r1
                  ELSE IF ~IsOk(r2) THEN r2
                  ELSE Ok(Sprite(join(r1.val \o r2.val), SPACE, align, 0, 0))
          ELSE Ok(Sprite(join(<<>>), SPACE, align, 0, 0))

RECURSIVE merge_rerendered(_, _, _)
\* slip: a single sprite is re-rendered into a fresh Sprite instead of returned
merge_rerendered(edge, align, sprites) ==
    IF Len(sprites) = 0 THEN Ok(NullSprite)
    ELSE IF Len(sprites) = 1
    THEN LET t == textbox(sprites[1])
         IN IF ~IsOk(t) THEN t ELSE Ok(Sprite(t.val, SPACE, align, 0, 0))
    ELSE Let(merge_rerendered(edge, align, Tail(sprites)), LAMBDA next :
             IF ~IsOk(next) THEN next
             ELSE MergePair(edge, align, sprites[1], next.val))

RECURSIVE merge(_, _, _)
merge(edge, align, sprites) ==
    IF Len(sprites) = 0 THEN Ok(NullSprite)
    ELSE IF Len(sprites) = 1 THEN Ok(sprites[1])
    ELSE Let(merge(edge, align, Tail(sprites)), LAMBDA next :
             IF ~IsOk(next) THEN next
             ELSE MergePair(edge, align, sprites[1], next.val))

RECURSIVE Wrapped(_, _)
\* the dict after `for alignment, margin in margins: wrapped[alignment] = margin`
Wrapped(marginseq, key) ==
    IF marginseq = <<>> THEN 0
    ELSE LET last == marginseq[Len(marginseq)]
         IN IF last[1] = key THEN last[2]
            ELSE Wrapped(SubSeq(marginseq, 1, Len(marginseq) - 1), key)

wrap(sprite, marginseq, padding) ==
    LET inner == IF padding # BLANK
                 THEN LET t == textbox(sprite)
                      IN IF ~IsOk(t) THEN t
                         ELSE Ok(Sprite(t.val, padding, sprite.align,
                                        sprite.min_width, sprite.min_height))
                 ELSE Ok(sprite)
    IN IF ~IsOk(inner) THEN inner
       ELSE
       LET b == blank_row(inner.val)
           r == rows(inner.val)
       IN IF ~IsOk(b) THEN b
          ELSE IF ~IsOk(r) THEN r
          ELSE
          LET top_rows == Repeat(<<b.val>>, Wrapped(marginseq, "TOP"))
              bottom_rows == Repeat(<<b.val>>, Wrapped(marginseq, "BOTTOM"))
              l == Repeat(padding, Wrapped(marginseq, "LEFT"))
              rt == Repeat(padding, Wrapped(marginseq, "RIGHT"))
              wrapped_lines ==
                  top_rows \o [i \in 1..Len(r.val) |-> l \o r.val[i] \o rt] \o bottom_rows
          IN Ok(Sprite(join(wrapped_lines), padding, "LEFT", 0, 0))

(* ----------------------------- lib/ascii.py ---------------------------- *)
\* the API borders/border.py is written against: Align, Sprite, merge
Align == {"TOP", "TOPLEFT", "TOPRIGHT", "CENTER", "CENTERLEFT", "CENTERRIGHT",
          "BOTTOM", "BOTTOMLEFT", "BOTTOMRIGHT", "LEFT", "RIGHT"}

Align_left(a) == a \in {"TOPLEFT", "CENTERLEFT", "BOTTOMLEFT"}
Align_right(a) == a \in {"TOPRIGHT", "CENTERRIGHT", "BOTTOMRIGHT"}
Align_top(a) == a \in {"TOP", "TOPLEFT", "TOPRIGHT"}
Align_bottom(a) == a \in {"BOTTOM", "BOTTOMLEFT", "BOTTOMRIGHT"}

ascii_Sprite(text, padding, align) ==
    [ascii |-> text, padding |-> padding, align |-> align]

ascii_dim(s) ==
    LET lines == splitlines(s.ascii)
        lines_width == {Len(lines[i]) : i \in 1..Len(lines)}
    IN IF lines = <<>> THEN Raise(ValueError)
       ELSE IF Cardinality(lines_width) > 1
               /\ ~(Align_left(s.align) \/ Align_right(s.align))
            THEN Raise(AsciiError)
       ELSE Ok(<<MaxLen(lines), Len(lines)>>)

\* also __repr__
ascii_padded_string(s) ==
    Try(ascii_dim(s), LAMBDA d :
       LET lines == splitlines(s.ascii)
           x == d[1]
           padded_lines ==
               [i \in 1..Len(lines) |->
                   LET this_x == Len(lines[i])
                       sep == Repeat(s.padding, x - this_x)
                   IN IF this_x < x
                      THEN IF Align_right(s.align) THEN sep \o lines[i]
                           ELSE IF Align_left(s.align) THEN lines[i] \o sep
                           ELSE lines[i]
                      ELSE lines[i]]
       IN Ok(join(padded_lines)))

ascii_rows(s) == Try(ascii_padded_string(s), LAMBDA t : Ok(splitlines(t)))

ascii_row(s, index, padding) ==
    Try(ascii_rows(s), LAMBDA r :
       IF index < Len(r) THEN Ok(r[index + 1])
       ELSE IF padding # BLANK THEN Ok(Repeat(padding, ascii_dim(s).val[1]))
       ELSE Ok(BLANK))

RECURSIVE ascii_merge(_)
ascii_merge(sprites) ==
    IF Len(sprites) = 0 THEN Ok(ascii_Sprite(BLANK, SPACE, "LEFT"))
    ELSE IF Len(sprites) = 1 THEN Ok(sprites[1])
    ELSE Try(ascii_merge(Tail(sprites)), LAMBDA next :
         Try(ascii_rows(sprites[1]), LAMBDA r :
         Let([i \in 1..Len(r) |-> ascii_row(next, i - 1, SPACE)], LAMBDA adj :
         Let(FirstExc(adj), LAMBDA e :
            IF e # "" THEN Raise(e)
            ELSE Ok(ascii_Sprite(join([i \in 1..Len(r) |-> r[i] \o adj[i].val]),
                                 SPACE, sprites[1].align))))))

(* ------------------------ ascii/borders/border.py ----------------------- *)
MIN_PADDING == 1

\* sprites.get(key) is None
Missing(sprites, key) == key \notin DOMAIN sprites

\* sprites.get(a) or sprites.get(b), one of them present: a sprite is always truthy
OrElse(sprites, a, b) == IF ~Missing(sprites, a) THEN sprites[a] ELSE sprites[b]

\* Border.__init__: the border object, or the exception raised
Border(sprites) ==
    IF \E k \in {"TOPLEFT", "TOPRIGHT", "BOTTOMLEFT", "BOTTOMRIGHT"} : Missing(sprites, k)
    THEN Raise(AsciiError)
    ELSE IF Missing(sprites, "TOP") /\ Missing(sprites, "BOTTOM") THEN Raise(AsciiError)
    ELSE
    LET self_top == OrElse(sprites, "TOP", "BOTTOM")
        self_bottom == OrElse(sprites, "BOTTOM", "TOP")
        top_d == ascii_dim(self_top)
        bottom_d == ascii_dim(self_bottom)
    IN IF ~IsOk(top_d) THEN top_d
       ELSE IF ~IsOk(bottom_d) THEN bottom_d
       ELSE IF top_d.val[1] # bottom_d.val[1] THEN Raise(AsciiError)
       ELSE IF Missing(sprites, "LEFT") /\ Missing(sprites, "RIGHT") THEN Raise(AsciiError)
       ELSE
       LET self_left == OrElse(sprites, "LEFT", "RIGHT")
           self_right == OrElse(sprites, "RIGHT", "LEFT")
           left_d == ascii_dim(self_left)
           right_d == ascii_dim(self_right)
       IN IF ~IsOk(left_d) THEN left_d
          ELSE IF ~IsOk(right_d) THEN right_d
          ELSE IF left_d.val[2] # right_d.val[2] THEN Raise(AsciiError)
          ELSE Ok([top_left |-> sprites["TOPLEFT"], top_right |-> sprites["TOPRIGHT"],
                   bottom_left |-> sprites["BOTTOMLEFT"],
                   bottom_right |-> sprites["BOTTOMRIGHT"],
                   top |-> self_top, bottom |-> self_bottom,
                   left |-> self_left, right |-> self_right])

\* slip: the margins subtracted from the body instead of added
InnerCount_minus(text_dim, margins2, sprite_dim) ==
    IntDiv(Max(text_dim - margins2, 0), sprite_dim) + 1

\* number of edge tiles between the corners
InnerCount(text_dim, margins2, sprite_dim) == IntDiv(text_dim + margins2, sprite_dim) + 1

\* Border.__call__; the margin strings it computes are not used in the frame
BorderCall(self, text, align, fill) ==
    LET text_box == ascii_Sprite(text, SPACE, IF Align_right(align) THEN "RIGHT" ELSE "LEFT")
    IN Try(ascii_dim(text_box), LAMBDA text_dim :
       Try(ascii_dim(self.top), LAMBDA horiz_dim :
       Try(ascii_dim(self.left), LAMBDA vert_dim :
       IF horiz_dim[1] = 0 THEN Raise("ZeroDivisionError")
       ELSE
       Let(InnerCount(text_dim[1], MIN_PADDING * 2, horiz_dim[1]), LAMBDA inner_width :
       Try(ascii_merge(<<self.top_left>> \o Repeat(<<self.top>>, inner_width)
                       \o <<self.top_right>>), LAMBDA top_line :
       Try(ascii_merge(<<self.bottom_left>> \o Repeat(<<self.bottom>>, inner_width)
                       \o <<self.bottom_right>>), LAMBDA bottom_line :
       Try(ascii_padded_string(top_line), LAMBDA tl :
       Try(ascii_padded_string(bottom_line), LAMBDA bl :
          Ok(ascii_Sprite(join(<<tl, bl>>), SPACE, align))))))))))

(* ------------------------- inputs of the calls -------------------------- *)
Chars == {"x", NEWLINE}
DOT == <<".">>

\* every str over Chars of at most n characters
Texts(n) == UNION {[1..k -> Chars] : k \in 0..n}

Paddings == {BLANK, SPACE, DOT}

\* one alignment per horizontal and per vertical position
OperandAligns == {"LEFT", "TOPRIGHT", "BOTTOM"}

\* the operands of merge and wrap: no minimum, a minimum width or a minimum height
Operands ==
    {Sprite(t, p, a, m[1], m[2]) :
        t \in Texts(MaxMergeText), p \in {BLANK, DOT}, a \in OperandAligns,
        m \in {<<0, 0>>, <<MaxMin, 0>>, <<0, MaxMin>>}}

\* the (alignment, margin) pairs of a wrap call: an edge is left out or given a margin
MarginSeqs ==
    {LET f == [e \in 1..4 |-> <<(<<"TOP", "LEFT", "RIGHT", "BOTTOM">>)[e], m[e]>>]
     IN SelectSeq(f, LAMBDA pr : pr[2] > 0) :
        m \in [1..4 -> 0..MaxMargin]}

\* edge tiles: 1x1, 2x1, 1x2, no line at all, lines of unequal width
Tiles ==
    {ascii_Sprite(t, SPACE, "LEFT") :
        t \in {<<"x">>, <<"x", "x">>, <<"x", NEWLINE, "x">>, BLANK,
               <<"x", NEWLINE, "x", "x">>}}

Corner == ascii_Sprite(<<"x">>, SPACE, "LEFT")

\* Mapping[Align, Sprite]: any corner and any edge present or not
BorderMaps ==
    {[k \in cs \cup DOMAIN es |-> IF k \in cs THEN Corner ELSE es[k]] :
        cs \in SUBSET {"TOPLEFT", "TOPRIGHT", "BOTTOMLEFT", "BOTTOMRIGHT"},
        es \in UNION {[ks -> Tiles] : ks \in SUBSET {"TOP", "BOTTOM", "LEFT", "RIGHT"}}}

Pending == [exc |-> "pending"]

(* --------------------------- the state machine -------------------------- *)
\* a call is drawn with its arguments; the step below runs it
InitAlignment ==
    /\ op = "Alignment"
    /\ args \in {[alignment |-> a] : a \in Alignment}

InitMargins ==
    /\ op = "margins"
    /\ args \in [dim : 0..MaxDim, min_dim : 0..(2 * MaxDim), alignment : Alignment,
                 vertical : BOOLEAN]

InitSprite ==
    /\ op = "Sprite"
    /\ args \in {[sprite |-> Sprite(t, p, a, mw, mh)] :
                    t \in Texts(MaxText), p \in Paddings, a \in Alignment,
                    mw \in 0..MaxMin, mh \in 0..MaxMin}

InitWrap ==
    /\ op = "wrap"
    /\ args \in [sprite : Operands, margins : MarginSeqs, padding : {BLANK, SPACE}]

\* merge of no sprite or one sprite under every align, of two under one align
InitMerge ==
    /\ op = "merge"
    /\ args \in [edge : {"RIGHT", "BOTTOM"}, align : Alignment,
                  sprites : UNION {[1..n -> Operands] : n \in 0..1}]
                \cup [edge : {"RIGHT", "BOTTOM"}, align : {"BOTTOMRIGHT"},
                      sprites : [1..2 -> Operands]]

\* the operands of an n-ary merge: a text with a line, a one-character padding
NaryOperands ==
    {Sprite(t, DOT, a, m[1], m[2]) :
        t \in Texts(MaxMergeText) \ {BLANK}, a \in {"LEFT", "BOTTOMRIGHT"},
        m \in {<<0, 0>>, <<MaxMin, MaxMin>>}}

\* merge of one, two or three sprites, in every order
InitMergeNary ==
    /\ op = "merge"
    /\ args \in [edge : {"RIGHT", "BOTTOM"}, align : {"CENTER"},
                  sprites : UNION {[1..n -> NaryOperands] : n \in 1..3}]

InitBorder ==
    /\ op = "Border"
    /\ args \in {[sprites |-> m] : m \in BorderMaps}

Init ==
    /\ pc = "call"
    /\ ret = Pending
    /\ \/ InitAlignment
       \/ InitMargins
       \/ InitSprite

CallAlignment ==
    /\ pc = "call" /\ op = "Alignment"
    /\ ret' = LET a == args.alignment
              IN [left |-> left(a), center |-> center(a), right |-> right(a),
                  top |-> top(a), middle |-> middle(a), bottom |-> bottom(a)]
    /\ pc' = "done"
    /\ UNCHANGED <<op, args>>

CallMargins ==
    /\ pc = "call" /\ op = "margins"
    /\ ret' = margins(args.dim, args.min_dim, args.alignment, args.vertical)
    /\ pc' = "done"
    /\ UNCHANGED <<op, args>>

\* construct the sprite and read dim, textbox and rows
CallSprite ==
    /\ pc = "call" /\ op = "Sprite"
    /\ ret' = LET s == args.sprite
              IN [dim |-> dim(s), textbox |-> textbox(s), rows |-> rows(s)]
    /\ pc' = "done"
    /\ UNCHANGED <<op, args>>

CallWrap ==
    /\ pc = "call" /\ op = "wrap"
    /\ ret' = wrap(args.sprite, args.margins, args.padding)
    /\ pc' = "done"
    /\ UNCHANGED <<op, args>>

CallMerge ==
    /\ pc = "call" /\ op = "merge"
    /\ ret' = merge(args.edge, args.align, args.sprites)
    /\ pc' = "done"
    /\ UNCHANGED <<op, args>>

NewBorder ==
    /\ pc = "call" /\ op = "Border"
    /\ ret' = Border(args.sprites)
    /\ pc' = "constructed"
    /\ UNCHANGED <<op, args>>

\* the constructed border is called with a text body
CallBorder ==
    /\ pc = "constructed" /\ IsOk(ret)
    /\ \E text \in Texts(MaxText), align \in Align, fill \in {DOT, BLANK} :
        /\ args' = [self |-> ret.val, text |-> text, align |-> align, fill |-> fill]
        /\ ret' = BorderCall(ret.val, text, align,
                             IF Len(fill) # 1 THEN SPACE ELSE fill)
    /\ op' = "Border.__call__"
    /\ pc' = "done"

Next == CallAlignment \/ CallMargins \/ CallSprite

Spec == Init /\ [][Next]_vars

InitWrapCall == pc = "call" /\ ret = Pending /\ InitWrap

NextWrap == CallWrap

SpecWrap == InitWrapCall /\ [][NextWrap]_vars

InitMergeCall == pc = "call" /\ ret = Pending /\ InitMerge

NextMerge == CallMerge

SpecMerge == InitMergeCall /\ [][NextMerge]_vars

InitMergeNaryCall == pc = "call" /\ ret = Pending /\ InitMergeNary

SpecMergeNary == InitMergeNaryCall /\ [][NextMerge]_vars

InitBorderCall == pc = "call" /\ ret = Pending /\ InitBorder

NextBorder == NewBorder \/ CallBorder

SpecBorder == InitBorderCall /\ [][NextBorder]_vars

(* ------------------------------ properties ------------------------------ *)
Done(o) == pc = "done" /\ op = o

\* s.rows has s.dim.height rows, each s.dim.width long
Rect(s) ==
    /\ IsOk(dim(s))
    /\ IsOk(rows(s))
    /\ Len(rows(s).val) = dim(s).val[2]
    /\ \A i \in 1..Len(rows(s).val) : Len(rows(s).val[i]) = dim(s).val[1]

\* C1: every Sprite (any text, padding, align, min_width, min_height, and every
\* sprite merge or wrap returns) has dim.height rows, each dim.width long.
Rectangularity ==
    /\ Done("Sprite") =>
          /\ IsOk(ret.dim)
          /\ IsOk(ret.rows)
          /\ Len(ret.rows.val) = ret.dim.val[2]
          /\ \A i \in 1..Len(ret.rows.val) : Len(ret.rows.val[i]) = ret.dim.val[1]
    /\ (Done("merge") \/ Done("wrap")) => (IsOk(ret) /\ Rect(ret.val))

\* C10: each Alignment value satisfies exactly one of left, center, right and
\* exactly one of top, middle, bottom; TOPLEFT is top and left, CENTER is middle
\* and center.
AlignmentAxisPartition ==
    Done("Alignment") =>
        /\ Cardinality({k \in {"left", "center", "right"} : ret[k]}) = 1
        /\ Cardinality({k \in {"top", "middle", "bottom"} : ret[k]}) = 1
        /\ (args.alignment = "TOPLEFT" => ret.top /\ ret.left)
        /\ (args.alignment = "CENTER" => ret.middle /\ ret.center)

AlignmentWitness ==
    /\ Done("Alignment")
    /\ args.alignment = "BOTTOM"
    /\ ret.center /\ ret.bottom /\ ~ret.middle /\ ~ret.left

\* C7: margins is (0,0) when dim >= min_dim; otherwise, with d = min_dim - dim,
\* (0,d) for a front alignment (left, or top when vertical), (d,0) for a back
\* alignment (right, bottom), (floor(d/2), ceil(d/2)) for any other; so
\* front + dim + back = max(dim, min_dim), and margins(5, 10, CENTER) = (2, 3).
MarginRule ==
    Done("margins") =>
        LET d == args.min_dim - args.dim
            a == args.alignment
            isFront == IF args.vertical THEN a \in {"TOPLEFT", "TOP", "TOPRIGHT"}
                       ELSE a \in {"TOPLEFT", "LEFT", "BOTTOMLEFT"}
            isBack == IF args.vertical THEN a \in {"BOTTOMLEFT", "BOTTOM", "BOTTOMRIGHT"}
                      ELSE a \in {"TOPRIGHT", "RIGHT", "BOTTOMRIGHT"}
            floorHalf == CHOOSE q \in 0..d : 2 * q <= d /\ d < 2 * (q + 1)
            ceilHalf == CHOOSE q \in 0..d : 2 * (q - 1) < d /\ d <= 2 * q
        IN /\ args.dim >= args.min_dim => ret = <<0, 0>>
           /\ args.dim < args.min_dim =>
                 /\ isFront => ret = <<0, d>>
                 /\ isBack => ret = <<d, 0>>
                 /\ ~isFront /\ ~isBack => ret = <<floorHalf, ceilHalf>>
           /\ ret[1] + args.dim + ret[2] = Max(args.dim, args.min_dim)
           /\ (args.dim = 5 /\ args.min_dim = 10 /\ a = "CENTER") => ret = <<2, 3>>

MarginWitness ==
    /\ Done("margins")
    /\ args = [dim |-> 5, min_dim |-> 10, alignment |-> "CENTER", vertical |-> FALSE]
    /\ ret = <<2, 3>>

\* C5: merge of no sprite returns NullSprite; merge of exactly one sprite returns
\* a Sprite whose textbox is that sprite's textbox, whatever its align and padding.
MergeBaseCases ==
    Done("merge") =>
        /\ Len(args.sprites) = 0 => ret = Ok(NullSprite)
        /\ Len(args.sprites) = 1 =>
              /\ IsOk(ret)
              /\ textbox(ret.val) = textbox(args.sprites[1])

MergeBaseWitness ==
    /\ Done("merge")
    /\ Len(args.sprites) = 1
    /\ args.sprites[1].padding = DOT
    /\ args.sprites[1].align = "TOPRIGHT"
    /\ args.align = "CENTER"
    /\ IsOk(ret)
    /\ textbox(ret.val) = Ok(<<".", NEWLINE, "x">>)

\* C4: merging NullSprite with a sprite s, on either side and along either edge,
\* completes without raising and returns a Sprite whose textbox is s.textbox.
NullSpriteIdentity ==
    (/\ Done("merge")
     /\ Len(args.sprites) = 2
     /\ \E i \in 1..2 : args.sprites[i] = NullSprite /\ Rect(args.sprites[3 - i])) =>
        /\ IsOk(ret)
        /\ \E i \in 1..2 :
              /\ args.sprites[i] = NullSprite
              /\ textbox(ret.val) = textbox(args.sprites[3 - i])

\* s is rectangular and stays so when padded to a larger box
Padded(s) == s.padding # BLANK /\ Rect(s)

\* the two operands of a pairwise merge along edge e
PairMerge(e) == Done("merge") /\ args.edge = e /\ Len(args.sprites) = 2

ReconciledRow(s, H, i) ==
    LET rws == rows(s).val
        n == Len(rws)
        before == IF s.align \in {"TOPLEFT", "TOP", "TOPRIGHT"} THEN 0
                  ELSE IF s.align \in {"BOTTOMLEFT", "BOTTOM", "BOTTOMRIGHT"} THEN H - n
                  ELSE (H - n) \div 2
    IN IF before <= i /\ i < before + n THEN rws[i - before + 1]
       ELSE Repeat(s.padding, dim(s).val[1])

MergeBottomRows ==
    (PairMerge("BOTTOM") /\ IsOk(dim(args.sprites[1])) /\ IsOk(dim(args.sprites[2]))) =>
        LET s1 == args.sprites[1]
            s2 == args.sprites[2]
            W == Max(dim(s1).val[1], dim(s2).val[1])
            c1 == Sprite(textbox(s1).val, s1.padding, s1.align, W, s1.min_height)
            c2 == Sprite(textbox(s2).val, s2.padding, s2.align, W, s2.min_height)
        IN /\ IsOk(ret)
           /\ IsOk(rows(c1)) /\ IsOk(rows(c2))
           /\ rows(ret.val) = Ok(rows(c1).val \o rows(c2).val)
           /\ dim(ret.val) = Ok(<<W, dim(s1).val[2] + dim(s2).val[2]>>)

\* the margin a wrap call names for edge e, 0 when it names none
MarginOf(ms, e) ==
    IF \E i \in 1..Len(ms) : ms[i][1] = e
    THEN ms[CHOOSE i \in 1..Len(ms) : ms[i][1] = e][2]
    ELSE 0

\* a row of padding characters only
IsBlank(r) == \A i \in 1..Len(r) : r[i] \notin Chars

\* C6: wrap(s, margins) returns a Sprite of dim (w + left + right, h + top +
\* bottom) whose first `top` and last `bottom` rows are blank and whose inner
\* rows are s's rows with `left` padding characters before and `right` after;
\* wrap(s, (TOP,2), (LEFT,1)) is 2 rows taller and 1 column wider.
WrapMargin ==
    (Done("wrap") /\ Padded(args.sprite)) =>
        LET s == args.sprite
            w == dim(s).val[1]
            h == dim(s).val[2]
            t == MarginOf(args.margins, "TOP")
            b == MarginOf(args.margins, "BOTTOM")
            l == MarginOf(args.margins, "LEFT")
            r == MarginOf(args.margins, "RIGHT")
        IN /\ IsOk(ret)
           /\ dim(ret.val) = Ok(<<w + l + r, h + t + b>>)
           /\ IsOk(rows(ret.val))
           /\ LET rws == rows(ret.val).val
              IN /\ Len(rws) = h + t + b
                 /\ \A i \in 1..Len(rws) : Len(rws[i]) = w + l + r
                 /\ \A i \in (1..t) \cup ((t + h + 1)..(t + h + b)) : IsBlank(rws[i])
                 /\ \A i \in 1..h :
                       /\ IsBlank(SubSeq(rws[t + i], 1, l))
                       /\ SubSeq(rws[t + i], l + 1, l + w) = rows(s).val[i]
                       /\ IsBlank(SubSeq(rws[t + i], l + w + 1, l + w + r))

\* the mapping given to Border
Keys == DOMAIN args.sprites

\* one of the configuration errors the claim lists
Misconfigured ==
    \/ ~({"TOPLEFT", "TOPRIGHT", "BOTTOMLEFT", "BOTTOMRIGHT"} \subseteq Keys)
    \/ ~("TOP" \in Keys \/ "BOTTOM" \in Keys)
    \/ ~("LEFT" \in Keys \/ "RIGHT" \in Keys)
    \/ /\ {"TOP", "BOTTOM"} \subseteq Keys
       /\ IsOk(ascii_dim(args.sprites["TOP"])) /\ IsOk(ascii_dim(args.sprites["BOTTOM"]))
       /\ ascii_dim(args.sprites["TOP"]).val[1] # ascii_dim(args.sprites["BOTTOM"]).val[1]
    \/ /\ {"LEFT", "RIGHT"} \subseteq Keys
       /\ IsOk(ascii_dim(args.sprites["LEFT"])) /\ IsOk(ascii_dim(args.sprites["RIGHT"]))
       /\ ascii_dim(args.sprites["LEFT"]).val[2] # ascii_dim(args.sprites["RIGHT"]).val[2]

\* C8: Border(mapping) raises AsciiError exactly when a corner is missing, or
\* TOP and BOTTOM are both missing, or LEFT and RIGHT are both missing, or the
\* top and bottom tiles differ in width, or the left and right tiles differ in
\* height; in every other case it succeeds, a missing member of an edge pair
\* being replaced by the other.
BorderValidation ==
    pc = "constructed" =>
        /\ (ret = Raise(AsciiError)) <=> Misconfigured
        /\ ~Misconfigured =>
              /\ IsOk(ret)
              /\ ret.val.top = args.sprites[IF "TOP" \in Keys THEN "TOP" ELSE "BOTTOM"]
              /\ ret.val.bottom = args.sprites[IF "BOTTOM" \in Keys THEN "BOTTOM" ELSE "TOP"]
              /\ ret.val.left = args.sprites[IF "LEFT" \in Keys THEN "LEFT" ELSE "RIGHT"]
              /\ ret.val.right = args.sprites[IF "RIGHT" \in Keys THEN "RIGHT" ELSE "LEFT"]

\* every corner and edge tile of border b is 1 character wide and 1 row high
UnitTiles(b) ==
    \A k \in DOMAIN b : ascii_dim(b[k]) = Ok(<<1, 1>>)

RECURSIVE Total(_)
\* the sum of a sequence of numbers
Total(ns) == IF ns = <<>> THEN 0 ELSE Head(ns) + Total(Tail(ns))

RECURSIVE Largest(_)
\* the maximum of a sequence of numbers, 0 when it is empty
Largest(ns) == IF ns = <<>> THEN 0 ELSE Max(Head(ns), Largest(Tail(ns)))

\* C11: for n >= 1 sprites with non-empty text and single-character padding,
\* merge(RIGHT, align, s1..sn) has width the sum of the input widths and height
\* the maximum input height, and merge(BOTTOM, align, s1..sn) has width the
\* maximum input width and height the sum of the input heights, in every order
\* of the inputs.
MergeDimensionLaw ==
    (/\ Done("merge")
     /\ Len(args.sprites) >= 1
     /\ \A i \in 1..Len(args.sprites) :
           Len(args.sprites[i].ascii) > 0 /\ Len(args.sprites[i].padding) = 1) =>
        LET n == Len(args.sprites)
            ws == [i \in 1..n |-> dim(args.sprites[i]).val[1]]
            hs == [i \in 1..n |-> dim(args.sprites[i]).val[2]]
        IN /\ IsOk(ret)
           /\ args.edge = "RIGHT" => dim(ret.val) = Ok(<<Total(ws), Largest(hs)>>)
           /\ args.edge = "BOTTOM" => dim(ret.val) = Ok(<<Largest(ws), Total(hs)>>)

====
